---- MODULE Spec2Model ----
(***************************************************************************)
(* Hospital-Batch-Processor: the batch orchestration of                    *)
(* app/services/batch_service.py (BatchService), the in-memory store of    *)
(* app/repositories/batch_repository.py and the remote client of           *)
(* app/services/hospital_service.py, as a state machine.                   *)
(*                                                                         *)
(* Scheduling is asyncio's: one event loop, a coroutine runs without       *)
(* interruption from one await on a remote call to the next.  Every action *)
(* below is one such uninterrupted stretch of code.                        *)
(*                                                                         *)
(* Optional[T] is encoded as a sequence: None == <<>>, a value v == <<v>>. *)
(* A Python str on which the code calls strip() is a sequence of           *)
(* one-character strings.                                                  *)
(***************************************************************************)
EXTENDS Integers, Sequences, FiniteSets, TLC

---------------------------------------------------------------------------
(* Bounds of the model *)

\* the longest list of parsed rows a submission carries
MaxItems == 2

\* ceiling on get_batch_status calls suspended on the remote list call at once
MaxListCalls == 1

\* the longest list of rows of the fan-out specification (FanSpec)
MaxFanItems == 22

\* the largest total_hospitals of the progress specification (ProgressSpec)
MaxProgressTotal == 6

\* the most rows of the batch of the reconciliation specification (ReconcileSpec)
MaxReconcileItems == 2

\* the most get_batch_status calls made in the reconciliation specification
MaxQueries == 2

\* batch identities uuid4() can produce in the model
Uuids == {"b1"}

\* identities a client may query: the ones uuid4() produces and a foreign one
QueryIds == Uuids \cup {"zz"}

---------------------------------------------------------------------------
(* Program constants *)

MAX_CONCURRENT_REQUESTS == 20

None == <<>>

Some(v) == <<v>>

\* HospitalStatus
CREATED_AND_ACTIVATED == "created_and_activated"

CREATED == "created"

FAILED == "failed"

DELETED == "deleted"

\* BatchProcessingStatus (FAILED is the same string "failed" as in the source)
PENDING == "pending"

PROCESSING == "processing"

COMPLETED == "completed"

PARTIALLY_COMPLETED == "partially_completed"

TerminalStatuses == {COMPLETED, PARTIALLY_COMPLETED, FAILED}

---------------------------------------------------------------------------
(* Rows as CSVValidator.validate_and_parse hands them over: name and       *)
(* address are non-empty after strip(), phone is a string or None.         *)

IsSpace(c) == c = " "

RECURSIVE lstrip(_)
lstrip(s) == IF s # <<>> /\ IsSpace(Head(s)) THEN lstrip(Tail(s)) ELSE s

RECURSIVE rstrip(_)
rstrip(s) ==
    IF s # <<>> /\ IsSpace(s[Len(s)]) THEN rstrip(SubSeq(s, 1, Len(s) - 1)) ELSE s

strip(s) == rstrip(lstrip(s))

RowValues ==
    { [name |-> <<" ", "A", " ">>, address |-> <<"x">>, phone |-> None],
      [name |-> <<"B">>, address |-> <<"y", " ">>, phone |-> Some("555")] }

RECURSIVE SeqsUpTo(_, _)
SeqsUpTo(S, n) ==
    IF n = 0 THEN { <<>> }
    ELSE LET shorter == SeqsUpTo(S, n - 1)
         IN  shorter \cup { Append(s, x) : s \in { t \in shorter : Len(t) = n - 1 }, x \in S }

\* validate_and_parse rejects a file without data rows, so a list is never empty
ParsedRowLists == { s \in SeqsUpTo(RowValues, MaxItems) : Len(s) >= 1 }

---------------------------------------------------------------------------
VARIABLES
    storage,    \* BatchRepository._storage: batch_id -> BatchData
    task,       \* the _process_batch_async task of each batch: its position and locals
    listCalls,  \* batch_id -> number of get_batch_status calls awaiting the remote list
    response,   \* what the handler that ran in the last step returned or raised
    fanTotal,   \* FanSpec: number of rows given to _create_hospitals_parallel
    fanStarted, \* FanSpec: rows that have passed `async with semaphore`
    fanDone,    \* FanSpec: rows whose _create_hospital_from_row has returned
    remote,     \* ReconcileSpec: the remote service's entities, identity -> active
    calls,      \* ReconcileSpec: the get_batch_status calls made, in the order made
    newestApplied \* ReconcileSpec: fetch number of the newest list reconciled so far

vars == <<storage, task, listCalls, response, fanTotal, fanStarted, fanDone,
          remote, calls, newestApplied>>

mainVars == <<storage, task, listCalls, response>>

reconcileVars == <<remote, calls, newestApplied>>

fanVars == <<fanTotal, fanStarted, fanDone>>

NoResponse == [kind |-> "none"]

---------------------------------------------------------------------------
(* schemas.py *)

BatchData(batch_id, total_hospitals, processing_status) ==
    [ batch_id |-> batch_id,
      total_hospitals |-> total_hospitals,
      processed_hospitals |-> 0,
      failed_hospitals |-> 0,
      batch_activated |-> FALSE,
      processing_status |-> processing_status,
      hospitals |-> <<>> ]

HospitalCreate(row, batch_id) ==
    [ name |-> strip(row.name),
      address |-> strip(row.address),
      phone |-> row.phone,
      creation_batch_id |-> batch_id ]

\* the entity the remote service answers a create with: the request's fields
\* under the identity it assigned, active by default
Hospital(id, hospital_create) ==
    [ id |-> id,
      name |-> hospital_create.name,
      address |-> hospital_create.address,
      phone |-> hospital_create.phone,
      active |-> TRUE ]

HospitalRecord(row, hospital_id, name, address, phone, status, error_message) ==
    [ row |-> row,
      hospital_id |-> hospital_id,
      name |-> name,
      address |-> address,
      phone |-> phone,
      status |-> status,
      error_message |-> error_message ]

---------------------------------------------------------------------------
(* batch_repository.py: the store is a dict; get() hands out the stored    *)
(* object itself, so a field assignment is visible to every reader at once *)
(* and save() of an object obtained from get() stores what is already      *)
(* there.                                                                  *)

exists(batch_id) == batch_id \in DOMAIN storage

get(batch_id) == IF exists(batch_id) THEN Some(storage[batch_id]) ELSE None

save(batch_data) ==
    [ id \in DOMAIN storage \cup {batch_data.batch_id} |->
        IF id = batch_data.batch_id THEN batch_data ELSE storage[id] ]

---------------------------------------------------------------------------
(* The remote directory service assigns identities 1, 2, 3, ... in the     *)
(* order in which it creates entities.                                     *)

RecordIds(records) ==
    { records[i].hospital_id[1] : i \in { j \in DOMAIN records : records[j].hospital_id # None } }

UsedIds ==
    UNION { RecordIds(storage[b].hospitals) \cup RecordIds(task[b].results) : b \in DOMAIN storage }

NextRemoteId == Cardinality(UsedIds) + 1

---------------------------------------------------------------------------
(* BatchService._create_hospitals_parallel and _create_hospital_from_row   *)

Rows(b) == task[b].parsed_rows

\* mutant: enumerate(parsed_rows) without start=1
RowNumber_ZeroBased(position) == position - 1

\* enumerate(parsed_rows, start=1): the row number of the row at (1-based) position
RowNumber(position) == position

\* rows inside `async with semaphore` whose remote create has not returned
InFlight(b) == (1 .. task[b].started) \ DOMAIN task[b].results

\* mutant: the semaphore admits one caller more than its width
SemaphoreLocked_OffByOne(inflight) == inflight > MAX_CONCURRENT_REQUESTS

\* asyncio.Semaphore.locked()
SemaphoreLocked(inflight) == inflight >= MAX_CONCURRENT_REQUESTS

\* lines 148-151: the success count is taken from the stored item list
CountSucceeded(hospitals) ==
    Cardinality({ i \in DOMAIN hospitals : hospitals[i].status \in {CREATED, CREATED_AND_ACTIVATED} })

\* lines 139-146
CreatedRecord(row_number, created_hospital) ==
    HospitalRecord(row_number, Some(created_hospital.id), created_hospital.name,
                   created_hospital.address, created_hospital.phone, CREATED, None)

\* lines 171-178
RejectedRecord(row_number, row) ==
    HospitalRecord(row_number, None, strip(row.name), strip(row.address), row.phone,
                   FAILED, Some("Failed to create hospital via external API"))

\* lines 186-193: error_message is str(e)
RaisedRecord(row_number, row, e) ==
    HospitalRecord(row_number, None, strip(row.name), strip(row.address), row.phone,
                   FAILED, Some(e))

\* what str(e) can be for an exception leaving create_hospital
ExceptionTexts == { "ConnectError" }

\* mutant: the failure count is taken from the stored item list, as the success
\* count is
BatchAfterCreate_FailedFromList(batch_data, outcome) ==
    IF outcome = "created"
    THEN [batch_data EXCEPT !.processed_hospitals = CountSucceeded(batch_data.hospitals) + 1]
    ELSE [batch_data EXCEPT
            !.failed_hospitals =
                Cardinality({ i \in DOMAIN batch_data.hospitals :
                                batch_data.hospitals[i].status = FAILED }) + 1]

\* _create_hospital_from_row from the return of create_hospital to its own return:
\* the BatchData it leaves in the store. outcome is "created" (a Hospital came
\* back), "rejected" (create_hospital returned None) or "raised".
BatchAfterCreate(batch_data, outcome) ==
    IF outcome = "created"
    THEN [batch_data EXCEPT !.processed_hospitals = CountSucceeded(batch_data.hospitals) + 1]
    ELSE [batch_data EXCEPT !.failed_hospitals = @ + 1]

\* ... and the HospitalRecord it returns
RecordAfterCreate(position, row, batch_id, outcome, e) ==
    CASE outcome = "created" ->
            CreatedRecord(RowNumber(position), Hospital(NextRemoteId, HospitalCreate(row, batch_id)))
      [] outcome = "rejected" -> RejectedRecord(RowNumber(position), row)
      [] OTHER -> RaisedRecord(RowNumber(position), row, e)

Outcomes == {"created", "rejected", "raised"}

\* mutant: no `except Exception` around the creation; the exception leaves
\* gather() and ends the task that awaits it
TaskAfterCreate_Unhandled(t, position, hospital_record) ==
    IF /\ hospital_record.status = FAILED
       /\ hospital_record.error_message # Some("Failed to create hospital via external API")
    THEN [t EXCEPT !.pc = "crashed"]
    ELSE [t EXCEPT !.results = [ i \in DOMAIN @ \cup {position} |->
                                  IF i = position THEN hospital_record ELSE @[i] ]]

\* gather() keeps each row's returned record at the row's position; every
\* exception is caught inside _create_hospital_from_row (line 179), so the task
\* that awaits gather() goes on waiting for the other rows
TaskAfterCreate(t, position, hospital_record) ==
    [t EXCEPT !.results = [ i \in DOMAIN @ \cup {position} |->
                             IF i = position THEN hospital_record ELSE @[i] ]]

---------------------------------------------------------------------------
(* BatchService._process_batch_async                                       *)

\* mutant: the success count is taken from the running count, not from the records
CountStatus_Running(hospitals_records, status) ==
    IF status = CREATED
    THEN (IF \E i \in DOMAIN hospitals_records : hospitals_records[i].status = CREATED THEN 1 ELSE 0)
    ELSE Cardinality({ i \in DOMAIN hospitals_records : hospitals_records[i].status = status })

\* lines 62-69
CountStatus(hospitals_records, status) ==
    Cardinality({ i \in DOMAIN hospitals_records : hospitals_records[i].status = status })

\* mutant: the status is decided by the successes first
FinalStatus_SuccessFirst(processed_count, failed_count) ==
    IF processed_count > 0 THEN COMPLETED
    ELSE IF failed_count > 0 THEN FAILED
    ELSE PARTIALLY_COMPLETED

\* lines 89-93
FinalStatus(processed_count, failed_count) ==
    IF failed_count = 0 THEN COMPLETED
    ELSE IF processed_count > 0 THEN PARTIALLY_COMPLETED
    ELSE FAILED

\* mutant: the totals of the gathered records are added to the running counts
BatchAfterGather_Accumulate(batch_data, hospitals_records) ==
    [batch_data EXCEPT !.hospitals = hospitals_records,
                       !.processed_hospitals = @ + CountStatus(hospitals_records, CREATED),
                       !.failed_hospitals = @ + CountStatus(hospitals_records, FAILED)]

\* mutant: the join counts the activated records, of which there are none yet
BatchAfterGather_CountsActivated(batch_data, hospitals_records) ==
    [batch_data EXCEPT !.hospitals = hospitals_records,
                       !.processed_hospitals = CountStatus(hospitals_records, CREATED_AND_ACTIVATED),
                       !.failed_hospitals = CountStatus(hospitals_records, FAILED)]

\* lines 71-74: the gathered results, by position, and their counts
BatchAfterGather(batch_data, hospitals_records) ==
    [batch_data EXCEPT !.hospitals = hospitals_records,
                       !.processed_hospitals = CountStatus(hospitals_records, CREATED),
                       !.failed_hospitals = CountStatus(hospitals_records, FAILED)]

\* mutant: the loop upgrades every record, the FAILED ones too
Upgrade_Every(hospitals_records) ==
    [ i \in DOMAIN hospitals_records |->
        [hospitals_records[i] EXCEPT !.status = CREATED_AND_ACTIVATED] ]

\* mutant: the loop upgrades copies of the records, the stored ones stay CREATED
Upgrade_Copies(hospitals_records) == hospitals_records

\* lines 81-83
Upgrade(hospitals_records) ==
    [ i \in DOMAIN hospitals_records |->
        IF hospitals_records[i].status = CREATED
        THEN [hospitals_records[i] EXCEPT !.status = CREATED_AND_ACTIVATED]
        ELSE hospitals_records[i] ]

\* mutant: any answer of the remote counts as an activation, a count of zero too
Activated_AnyAnswer(activation_result) == activation_result # None

\* lines 79-80: activation_result is None or an ActivateResponse's activated_count
Activated(activation_result) == activation_result # None /\ activation_result[1] > 0

\* lines 85-95; hospitals_records is the very list stored at line 71
BatchAfterFinish(batch_data, batch_activated, processed_count, failed_count) ==
    [batch_data EXCEPT !.hospitals = IF batch_activated THEN Upgrade(@) ELSE @,
                       !.batch_activated = batch_activated,
                       !.processing_status = FinalStatus(processed_count, failed_count)]

\* mutant: the task forgets to mark the batch PROCESSING
BatchStarted_Forgotten(batch_data) == batch_data

\* lines 52-55
BatchStarted(batch_data) == [batch_data EXCEPT !.processing_status = PROCESSING]

\* mutant: `activation_result.activated_count` without the None test; a failed
\* activation raises in the task, which ends before line 87
BatchAfterActivation_NoneUnchecked(batch_data, activation_result, processed_count, failed_count) ==
    IF activation_result = None THEN batch_data
    ELSE [batch_data EXCEPT !.hospitals = IF activation_result[1] > 0 THEN Upgrade(@) ELSE @,
                            !.batch_activated = activation_result[1] > 0,
                            !.processing_status =
                                IF failed_count = 0 THEN COMPLETED
                                ELSE IF processed_count > 0 THEN PARTIALLY_COMPLETED
                                ELSE FAILED]

\* lines 78-95: the batch once activate_batch has returned
BatchAfterActivation(batch_data, activation_result, processed_count, failed_count) ==
    BatchAfterFinish(batch_data, Activated(activation_result), processed_count, failed_count)

\* the task create_task() makes: not yet run
NewTask(parsed_rows) ==
    [ pc |-> "scheduled",
      parsed_rows |-> parsed_rows,
      started |-> 0,
      results |-> <<>>,
      processed_count |-> 0,
      failed_count |-> 0 ]

BatchUploadResponse(batch_id, total_hospitals) ==
    [ kind |-> "upload",
      batch_id |-> batch_id,
      total_hospitals |-> total_hospitals,
      status |-> PENDING ]

\* mutant: `await self._process_batch_async(...)` in place of create_task(): the
\* task's first stretch runs before initiate_csv_upload returns
initiate_csv_upload_Awaited(batch_id, parsed_rows) ==
    /\ ~exists(batch_id)
    /\ storage' = save(BatchStarted(BatchData(batch_id, Len(parsed_rows), PENDING)))
    /\ task' = [ id \in DOMAIN task \cup {batch_id} |->
                   IF id = batch_id THEN [NewTask(parsed_rows) EXCEPT !.pc = "gather"]
                   ELSE task[id] ]
    /\ response' = BatchUploadResponse(batch_id, Len(parsed_rows))
    /\ UNCHANGED <<listCalls, fanVars, reconcileVars>>

\* initiate_csv_upload, lines 27-47: no await between save() and return
initiate_csv_upload(batch_id, parsed_rows) ==
    /\ ~exists(batch_id)
    /\ storage' = save(BatchData(batch_id, Len(parsed_rows), PENDING))
    /\ task' = [ id \in DOMAIN task \cup {batch_id} |->
                   IF id = batch_id THEN NewTask(parsed_rows) ELSE task[id] ]
    /\ response' = BatchUploadResponse(batch_id, Len(parsed_rows))
    /\ UNCHANGED <<listCalls, fanVars, reconcileVars>>

\* lines 49-57 and 102-114, up to the await of gather()
process_batch_begin(b) ==
    /\ exists(b)
    /\ task[b].pc = "scheduled"
    /\ storage' = save(BatchStarted(storage[b]))
    /\ task' = [task EXCEPT ![b].pc = "gather"]
    /\ response' = NoResponse
    /\ UNCHANGED <<listCalls, fanVars, reconcileVars>>

\* create_with_semaphore, lines 104-106 and 124-132: the next row's task enters the
\* semaphore (rows wait in FIFO order), builds the request and awaits create_hospital
create_with_semaphore(b) ==
    /\ exists(b)
    /\ task[b].pc = "gather"
    /\ task[b].started < Len(Rows(b))
    /\ ~SemaphoreLocked(Cardinality(InFlight(b)))
    /\ task' = [task EXCEPT ![b].started = @ + 1]
    /\ response' = NoResponse
    /\ UNCHANGED <<storage, listCalls, fanVars, reconcileVars>>

\* lines 132-193: create_hospital returns (or raises) for the row at `position`
create_hospital_returns(b, position, outcome, e) ==
    /\ exists(b)
    /\ task[b].pc = "gather"
    /\ position \in InFlight(b)
    /\ storage' = save(BatchAfterCreate(storage[b], outcome))
    /\ task' = [task EXCEPT ![b] =
                   TaskAfterCreate(@, position,
                                   RecordAfterCreate(position, Rows(b)[position], b, outcome, e))]
    /\ response' = NoResponse
    /\ UNCHANGED <<listCalls, fanVars, reconcileVars>>

\* mutant: activate_batch is called whether or not a row succeeded
ActivationDue_Always(processed_count) == TRUE

\* line 77, `if processed_count > 0:`
ActivationDue(processed_count) == processed_count > 0

\* gather() returns once every row's task has returned: lines 114-116 and 62-77;
\* without a success the task runs on through lines 85-95
gather_returns(b) ==
    /\ exists(b)
    /\ task[b].pc = "gather"
    /\ DOMAIN task[b].results = 1 .. Len(Rows(b))
    /\ LET hospitals_records == task[b].results
           processed_count == CountStatus(hospitals_records, CREATED)
           failed_count == CountStatus(hospitals_records, FAILED)
           gathered == BatchAfterGather(storage[b], hospitals_records)
       IN  /\ storage' = save(IF ActivationDue(processed_count)
                              THEN gathered
                              ELSE BatchAfterFinish(gathered, FALSE, processed_count, failed_count))
           /\ task' = [task EXCEPT ![b].pc = IF ActivationDue(processed_count) THEN "activate" ELSE "done",
                                   ![b].results = <<>>,
                                   ![b].processed_count = processed_count,
                                   ![b].failed_count = failed_count]
    /\ response' = NoResponse
    /\ UNCHANGED <<listCalls, fanVars, reconcileVars>>

\* hospital_service.activate_batch: None on any error, else the remote's count
ActivationResults == {None} \cup { Some(k) : k \in 0 .. MaxItems }

\* activate_batch returns: lines 78-95
activate_batch_returns(b, activation_result) ==
    /\ exists(b)
    /\ task[b].pc = "activate"
    /\ storage' = save(BatchAfterActivation(storage[b], activation_result,
                                            task[b].processed_count, task[b].failed_count))
    /\ task' = [task EXCEPT ![b].pc = "done"]
    /\ response' = NoResponse
    /\ UNCHANGED <<listCalls, fanVars, reconcileVars>>

---------------------------------------------------------------------------
(* BatchService.get_batch_progress and get_batch_status                    *)

\* raise BatchNotFoundException(batch_id)
BatchNotFoundException(op, batch_id) ==
    [ kind |-> "NotFound", op |-> op, batch_id |-> batch_id ]

\* mutant: the percentage is cut to two decimals, not rounded
ProgressPercentage_Truncated(processed, total) ==
    IF total > 0 THEN (10000 * processed) \div total ELSE 0

\* round(processed / total * 100, 2) if total > 0 else 0, in hundredths of a percent
ProgressPercentage(processed, total) ==
    IF total > 0 THEN (2 * 10000 * processed + total) \div (2 * total) ELSE 0

\* lines 251-262
CurrentMessage(batch_data, processed, total) ==
    CASE batch_data.processing_status = PENDING -> <<"Batch processing queued">>
      [] batch_data.processing_status = PROCESSING -> <<"Processing hospital", processed, total>>
      [] batch_data.processing_status = COMPLETED -> <<"All hospitals processed successfully">>
      [] batch_data.processing_status = PARTIALLY_COMPLETED ->
            <<"Completed with failures", batch_data.failed_hospitals>>
      [] batch_data.processing_status = FAILED -> <<"Processing failed">>
      [] OTHER -> <<"Unknown status">>

\* lines 247-272
BatchProgressResponse(batch_data) ==
    LET total == batch_data.total_hospitals
        processed == batch_data.processed_hospitals + batch_data.failed_hospitals
    IN  [ kind |-> "progress",
          batch_id |-> batch_data.batch_id,
          progress_percentage |-> ProgressPercentage(processed, total),
          processing_status |-> batch_data.processing_status,
          processed_hospitals |-> processed,
          total_hospitals |-> total,
          failed_hospitals |-> batch_data.failed_hospitals,
          current_message |-> CurrentMessage(batch_data, processed, total) ]

\* mutant: an unknown batch is answered with an empty BatchData's progress
get_batch_progress_Default(batch_id) ==
    /\ response' = IF get(batch_id) = None
                   THEN BatchProgressResponse(BatchData(batch_id, 0, PENDING))
                   ELSE BatchProgressResponse(storage[batch_id])
    /\ UNCHANGED <<storage, task, listCalls, fanVars, reconcileVars>>

\* get_batch_progress, lines 242-272: no await
get_batch_progress(batch_id) ==
    /\ response' = IF get(batch_id) = None
                   THEN BatchNotFoundException("progress", batch_id)
                   ELSE BatchProgressResponse(storage[batch_id])
    /\ UNCHANGED <<storage, task, listCalls, fanVars, reconcileVars>>

\* lines 231-240
BatchStatusResponse(batch_data, deleted_count) ==
    [ kind |-> "status",
      batch_id |-> batch_data.batch_id,
      total_hospitals |-> batch_data.total_hospitals,
      processed_hospitals |-> batch_data.processed_hospitals,
      failed_hospitals |-> batch_data.failed_hospitals,
      deleted_hospitals |-> deleted_count,
      batch_activated |-> batch_data.batch_activated,
      processing_status |-> batch_data.processing_status,
      hospitals |-> batch_data.hospitals ]

\* mutant: a batch is reconciled as soon as it is PROCESSING
Reconciles_WhileProcessing(batch_data) ==
    batch_data.processing_status \in {PROCESSING, COMPLETED, PARTIALLY_COMPLETED}

\* mutant: every terminal batch is reconciled, a FAILED one too
Reconciles_AnyTerminal(batch_data) == batch_data.processing_status \in TerminalStatuses

\* line 200
Reconciles(batch_data) == batch_data.processing_status \in {COMPLETED, PARTIALLY_COMPLETED}

\* get_batch_status, lines 195-204 and 225-240: up to the await of
\* get_hospitals_by_batch, or to the return when there is nothing to reconcile
get_batch_status(batch_id) ==
    /\ IF get(batch_id) = None
       THEN /\ response' = BatchNotFoundException("status", batch_id)
            /\ UNCHANGED listCalls
       ELSE IF Reconciles(storage[batch_id])
       THEN /\ listCalls[batch_id] < MaxListCalls
            /\ listCalls' = [listCalls EXCEPT ![batch_id] = @ + 1]
            /\ response' = NoResponse
       ELSE /\ response' = BatchStatusResponse(storage[batch_id],
                                               CountStatus(storage[batch_id].hospitals, DELETED))
            /\ UNCHANGED listCalls
    /\ UNCHANGED <<storage, task, fanVars, reconcileVars>>

\* `if hospital_record.hospital_id:`
HasHospitalId(hospital_record) ==
    hospital_record.hospital_id # None /\ hospital_record.hospital_id[1] # 0

\* mutant: an inactive entity is shown CREATED unless its record is FAILED
ReconciledStatus_InactiveRevives(hospital_record, external_hospitals_map) ==
    IF ~(hospital_record.hospital_id # None /\ hospital_record.hospital_id[1] # 0)
    THEN hospital_record.status
    ELSE IF hospital_record.hospital_id[1] \notin DOMAIN external_hospitals_map
    THEN DELETED
    ELSE IF external_hospitals_map[hospital_record.hospital_id[1]]
    THEN (IF hospital_record.status # DELETED THEN CREATED_AND_ACTIVATED
          ELSE hospital_record.status)
    ELSE (IF hospital_record.status # FAILED THEN CREATED
          ELSE hospital_record.status)

\* mutant: an entity the remote reports active is shown active whatever the record said
ReconciledStatus_RevivesDeleted(hospital_record, external_hospitals_map) ==
    IF ~(hospital_record.hospital_id # None /\ hospital_record.hospital_id[1] # 0)
    THEN hospital_record.status
    ELSE IF hospital_record.hospital_id[1] \notin DOMAIN external_hospitals_map
    THEN DELETED
    ELSE IF external_hospitals_map[hospital_record.hospital_id[1]]
    THEN CREATED_AND_ACTIVATED
    ELSE (IF hospital_record.status \notin {DELETED, FAILED} THEN CREATED
          ELSE hospital_record.status)

\* lines 209-222 for one record; external_hospitals_map maps an identity to the
\* remote entity's active flag
ReconciledStatus(hospital_record, external_hospitals_map) ==
    IF ~HasHospitalId(hospital_record) THEN hospital_record.status
    ELSE IF hospital_record.hospital_id[1] \notin DOMAIN external_hospitals_map
    THEN DELETED
    ELSE IF external_hospitals_map[hospital_record.hospital_id[1]]
    THEN (IF hospital_record.status # DELETED THEN CREATED_AND_ACTIVATED
          ELSE hospital_record.status)
    ELSE (IF hospital_record.status \notin {DELETED, FAILED} THEN CREATED
          ELSE hospital_record.status)

\* lines 207-222
Reconcile(hospitals, external_hospitals_map) ==
    [ i \in DOMAIN hospitals |->
        [hospitals[i] EXCEPT !.status = ReconciledStatus(hospitals[i], external_hospitals_map)] ]

\* lines 207 and 212-215: only a record this call turns DELETED is counted
DeletedCount(hospitals, external_hospitals_map) ==
    Cardinality({ i \in DOMAIN hospitals :
                    /\ HasHospitalId(hospitals[i])
                    /\ hospitals[i].hospital_id[1] \notin DOMAIN external_hospitals_map
                    /\ hospitals[i].status # DELETED })

\* hospital_service.get_hospitals_by_batch, lines 43-54: [] when the call fails
get_hospitals_by_batch(reply) == IF reply = None THEN <<>> ELSE reply[1]

\* what the remote service can answer the list call with: any part of the batch's
\* entities, each active or not; None is a failed call
ListReplies(b) ==
    IF exists(b)
    THEN {None} \cup
         { Some(m) : m \in UNION { [S -> BOOLEAN] : S \in SUBSET RecordIds(storage[b].hospitals) } }
    ELSE {}

\* mutant: the reconciliation also recounts the successes from the statuses it wrote
get_batch_status_resumes_Recounts(b, reply) ==
    /\ exists(b)
    /\ listCalls[b] > 0
    /\ LET external_hospitals_map == get_hospitals_by_batch(reply)
           batch_data == storage[b]
           reconciled == [batch_data EXCEPT
                            !.hospitals = Reconcile(@, external_hospitals_map),
                            !.processed_hospitals =
                                CountSucceeded(Reconcile(batch_data.hospitals,
                                                         external_hospitals_map))]
       IN  /\ storage' = save(reconciled)
           /\ response' = BatchStatusResponse(reconciled,
                               DeletedCount(batch_data.hospitals, external_hospitals_map))
    /\ listCalls' = [listCalls EXCEPT ![b] = @ - 1]
    /\ UNCHANGED <<task, fanVars, reconcileVars>>

\* get_hospitals_by_batch returns to a suspended get_batch_status: lines 204-240
get_batch_status_resumes(b, reply) ==
    /\ exists(b)
    /\ listCalls[b] > 0
    /\ LET external_hospitals_map == get_hospitals_by_batch(reply)
           batch_data == storage[b]
           reconciled == [batch_data EXCEPT !.hospitals = Reconcile(@, external_hospitals_map)]
       IN  /\ storage' = save(reconciled)
           /\ response' = BatchStatusResponse(reconciled,
                               DeletedCount(batch_data.hospitals, external_hospitals_map))
    /\ listCalls' = [listCalls EXCEPT ![b] = @ - 1]
    /\ UNCHANGED <<task, fanVars, reconcileVars>>

---------------------------------------------------------------------------
Init ==
    /\ storage = <<>>
    /\ task = <<>>
    /\ listCalls = [b \in Uuids |-> 0]
    /\ response = NoResponse
    /\ fanTotal = 0
    /\ fanStarted = 0
    /\ fanDone = 0
    /\ remote = <<>>
    /\ calls = <<>>
    /\ newestApplied = 0

TaskNext ==
    \E b \in Uuids :
        \/ process_batch_begin(b)
        \/ create_with_semaphore(b)
        \/ \E position \in 1 .. MaxItems, outcome \in Outcomes, e \in ExceptionTexts :
              create_hospital_returns(b, position, outcome, e)
        \/ gather_returns(b)
        \/ \E activation_result \in ActivationResults :
              activate_batch_returns(b, activation_result)

Next ==
    \/ \E batch_id \in Uuids, parsed_rows \in ParsedRowLists :
          initiate_csv_upload(batch_id, parsed_rows)
    \/ TaskNext
    \/ \E batch_id \in QueryIds : get_batch_progress(batch_id)
    \/ \E batch_id \in QueryIds : get_batch_status(batch_id)
    \/ \E b \in Uuids : \E reply \in ListReplies(b) : get_batch_status_resumes(b, reply)

Spec == Init /\ [][Next]_vars

\* the scheduler runs every ready task and every remote call returns
FairSpec == Spec /\ WF_vars(TaskNext)

---------------------------------------------------------------------------
(* _create_hospitals_parallel alone, for row lists longer than the         *)
(* semaphore is wide: the rows are counted, not told apart.  Rows          *)
(* 1 .. fanStarted have entered the semaphore (asyncio wakes waiters in    *)
(* FIFO order), fanDone of them have left it.                              *)

FanInFlight == fanStarted - fanDone

FanInit ==
    /\ storage = <<>>
    /\ task = <<>>
    /\ listCalls = [b \in Uuids |-> 0]
    /\ response = NoResponse
    /\ fanTotal \in 1 .. MaxFanItems
    /\ fanStarted = 0
    /\ fanDone = 0
    /\ remote = <<>>
    /\ calls = <<>>
    /\ newestApplied = 0

\* lines 105-106: a row's task enters `async with semaphore` and calls the remote
FanAcquire ==
    /\ fanStarted < fanTotal
    /\ ~SemaphoreLocked(FanInFlight)
    /\ fanStarted' = fanStarted + 1
    /\ UNCHANGED <<fanTotal, fanDone, mainVars, reconcileVars>>

\* line 106: _create_hospital_from_row returns and the semaphore is released
FanRelease ==
    /\ FanInFlight > 0
    /\ fanDone' = fanDone + 1
    /\ UNCHANGED <<fanTotal, fanStarted, mainVars, reconcileVars>>

FanNext == FanAcquire \/ FanRelease

FanSpec == FanInit /\ [][FanNext]_vars /\ WF_vars(FanNext)

---------------------------------------------------------------------------
(* get_batch_progress alone, as a function of the BatchData it reads: any  *)
(* total from 0 on (the service itself accepts an empty row list), any     *)
(* counts within the total.                                                *)

ProgressInit ==
    /\ \E b \in Uuids, total \in 0 .. MaxProgressTotal,
          status \in {PENDING, PROCESSING} \cup TerminalStatuses :
       \E processed \in 0 .. total : \E failed \in 0 .. (total - processed) :
          /\ status = PENDING => processed + failed = 0
          /\ storage = (b :> [BatchData(b, total, status) EXCEPT
                                 !.processed_hospitals = processed,
                                 !.failed_hospitals = failed])
    /\ task = <<>>
    /\ listCalls = [b \in Uuids |-> 0]
    /\ response = NoResponse
    /\ fanTotal = 0
    /\ fanStarted = 0
    /\ fanDone = 0
    /\ remote = <<>>
    /\ calls = <<>>
    /\ newestApplied = 0

ProgressNext == \E batch_id \in QueryIds : get_batch_progress(batch_id)

ProgressSpec == ProgressInit /\ [][ProgressNext]_vars

---------------------------------------------------------------------------
(* get_batch_status on a finished batch, with the remote service and the   *)
(* time at which it answers each list call spelled out.  Every list call   *)
(* runs on an httpx.AsyncClient of its own (hospital_service.py:45), so    *)
(* the answers reach the event loop in any order.  A call is "sent" from   *)
(* line 204 until the remote reads its entities for it, then "fetched"     *)
(* until the answer is delivered and lines 205-240 run, then "done".       *)

\* the row every record of the batch was made from
ReconcileRow == CHOOSE row \in RowValues : row.phone = None

\* a COMPLETED batch of k created rows as _process_batch_async leaves it
FinishedBatch(b, k, batch_activated) ==
    LET hospitals_records ==
            [ i \in 1 .. k |-> CreatedRecord(RowNumber(i),
                                             Hospital(i, HospitalCreate(ReconcileRow, b))) ]
    IN  BatchAfterFinish(BatchAfterGather(BatchStarted(BatchData(b, k, PENDING)),
                                          hospitals_records),
                         batch_activated, k, 0)

ReconcileInit ==
    /\ \E b \in Uuids, k \in 1 .. MaxReconcileItems, batch_activated \in BOOLEAN :
          /\ storage = (b :> FinishedBatch(b, k, batch_activated))
          /\ remote = [ id \in 1 .. k |-> batch_activated ]
    /\ task = <<>>
    /\ listCalls = [b \in Uuids |-> 0]
    /\ response = NoResponse
    /\ fanTotal = 0
    /\ fanStarted = 0
    /\ fanDone = 0
    /\ calls = <<>>
    /\ newestApplied = 0

\* get_batch_status, lines 195-204: up to the await of get_hospitals_by_batch
status_query_sends(batch_id) ==
    /\ exists(batch_id)
    /\ Reconciles(storage[batch_id])
    /\ Len(calls) < MaxQueries
    /\ calls' = Append(calls, [pc |-> "sent", batch_id |-> batch_id, reply |-> None, fetch |-> 0])
    /\ response' = NoResponse
    /\ UNCHANGED <<storage, task, listCalls, fanVars, remote, newestApplied>>

\* lists fetched so far
Fetched == Cardinality({ q \in DOMAIN calls : calls[q].pc # "sent" })

\* the remote service reads its entities for call q, or the call fails
remote_lists(q, ok) ==
    /\ calls[q].pc = "sent"
    /\ calls' = [calls EXCEPT ![q] = [@ EXCEPT !.pc = "fetched",
                                               !.reply = IF ok THEN Some(remote) ELSE None,
                                               !.fetch = Fetched + 1]]
    /\ response' = NoResponse
    /\ UNCHANGED <<storage, task, listCalls, fanVars, remote, newestApplied>>

\* somebody deletes an entity at the remote service or switches its active flag
remote_changes(id, delete) ==
    /\ id \in DOMAIN remote
    /\ remote' = IF delete
                 THEN [ e \in DOMAIN remote \ {id} |-> remote[e] ]
                 ELSE [remote EXCEPT ![id] = ~@]
    /\ response' = NoResponse
    /\ UNCHANGED <<storage, task, listCalls, fanVars, calls, newestApplied>>

\* the answer to call q reaches get_batch_status: lines 204-240
status_query_resumes(q) ==
    /\ calls[q].pc = "fetched"
    /\ LET external_hospitals_map == get_hospitals_by_batch(calls[q].reply)
           batch_data == storage[calls[q].batch_id]
           reconciled == [batch_data EXCEPT !.hospitals = Reconcile(@, external_hospitals_map)]
       IN  /\ storage' = save(reconciled)
           /\ response' = BatchStatusResponse(reconciled,
                               DeletedCount(batch_data.hospitals, external_hospitals_map))
    /\ calls' = [calls EXCEPT ![q] = [@ EXCEPT !.pc = "done", !.reply = None]]
    /\ newestApplied' = IF calls[q].fetch > newestApplied THEN calls[q].fetch ELSE newestApplied
    /\ UNCHANGED <<task, listCalls, fanVars, remote>>

ReconcileNext ==
    \/ \E batch_id \in Uuids : status_query_sends(batch_id)
    \/ \E q \in DOMAIN calls : \E ok \in BOOLEAN : remote_lists(q, ok)
    \/ \E id \in 1 .. MaxReconcileItems : \E delete \in BOOLEAN : remote_changes(id, delete)
    \/ \E q \in DOMAIN calls : status_query_resumes(q)

ReconcileSpec == ReconcileInit /\ [][ReconcileNext]_vars

---------------------------------------------------------------------------
(* Claims *)

Batches == DOMAIN storage

Processed(b) == storage[b].processed_hospitals + storage[b].failed_hospitals

IsTerminal(b) == storage[b].processing_status \in TerminalStatuses

\* the creation phase is over: gather() has returned and lines 71-74 have run
Joined(b) == task[b].pc \in {"activate", "done"}

\* C1: in every reachable state of every batch, the stored success count plus the
\* stored failure count is at most the batch's total item count
C1_CountsWithinTotal ==
    \A b \in Batches : Processed(b) <= storage[b].total_hospitals

\* a PROCESSING batch of two rows whose second row has failed while the first is
\* still in flight
C1_Witness ==
    \E b \in Batches :
        /\ storage[b].processing_status = PROCESSING
        /\ DOMAIN task[b].results = {2}
        /\ InFlight(b) = {1}
        /\ Processed(b) = 1

\* C2: whenever a batch is COMPLETED, PARTIALLY_COMPLETED or FAILED, success +
\* failure count equals total, and get_batch_progress reports processed = total
\* and 100 percent
C2_TerminalCountsComplete ==
    /\ \A b \in Batches :
          IsTerminal(b) =>
            /\ Processed(b) = storage[b].total_hospitals
            /\ BatchProgressResponse(storage[b]).processed_hospitals = storage[b].total_hospitals
            /\ storage[b].total_hospitals > 0 =>
                  BatchProgressResponse(storage[b]).progress_percentage = 10000
    /\ (response.kind = "progress" /\ response.processing_status \in TerminalStatuses) =>
          /\ response.processed_hospitals = response.total_hospitals
          /\ response.total_hospitals > 0 => response.progress_percentage = 10000

\* get_batch_progress has just answered for a two-row batch that ended
\* PARTIALLY_COMPLETED
C2_Witness ==
    /\ response.kind = "progress"
    /\ response.processing_status = PARTIALLY_COMPLETED
    /\ response.total_hospitals = 2

Forward ==
    { <<PENDING, PROCESSING>>, <<PROCESSING, COMPLETED>>,
      <<PROCESSING, PARTIALLY_COMPLETED>>, <<PROCESSING, FAILED>> }

\* C3: a batch starts PENDING and its status only moves PENDING -> PROCESSING ->
\* {COMPLETED, PARTIALLY_COMPLETED, FAILED}; no step, of the task or of a query,
\* skips PROCESSING, moves it back or changes a terminal status
C3_StatusForwardOnly ==
    [][ /\ \A b \in Batches :
              /\ b \in DOMAIN storage'
              /\ \/ storage'[b].processing_status = storage[b].processing_status
                 \/ <<storage[b].processing_status, storage'[b].processing_status>> \in Forward
        /\ \A b \in DOMAIN storage' \ Batches : storage'[b].processing_status = PENDING ]_vars

\* a reconciling get_batch_status has just returned for a COMPLETED batch and
\* changed an item, and the batch is still COMPLETED
C3_Witness ==
    /\ response.kind = "status"
    /\ response.processing_status = COMPLETED
    /\ response.deleted_hospitals > 0
    /\ storage[response.batch_id].processing_status = COMPLETED

\* C4: under fair scheduling, with every remote call returning, every submitted
\* batch eventually reaches COMPLETED, PARTIALLY_COMPLETED or FAILED
C4_EveryBatchTerminates ==
    \A b \in Uuids : (b \in Batches) ~> (b \in Batches /\ IsTerminal(b))

\* a batch has ended with one row created, one row failed and no activation
C4_Witness ==
    \E b \in Batches :
        /\ task[b].pc = "done"
        /\ storage[b].processing_status = PARTIALLY_COMPLETED
        /\ ~storage[b].batch_activated

\* the rows of a joined batch whose creation failed / succeeded: a failed creation
\* leaves a FAILED record, a successful one a record with the remote identity
FailedItems(b) ==
    { i \in DOMAIN storage[b].hospitals : storage[b].hospitals[i].status = FAILED }

SucceededItems(b) ==
    { i \in DOMAIN storage[b].hospitals : storage[b].hospitals[i].hospital_id # None }

\* C5: the terminal status is decided by the item outcomes alone: COMPLETED iff no
\* item failed, PARTIALLY_COMPLETED iff some failed and some succeeded, FAILED iff
\* some failed and none succeeded, whatever the activation call answered
C5_TerminalStatusFromOutcomes ==
    \A b \in Batches :
        IsTerminal(b) =>
          /\ storage[b].processing_status = COMPLETED <=> FailedItems(b) = {}
          /\ storage[b].processing_status = PARTIALLY_COMPLETED <=>
                (FailedItems(b) # {} /\ SucceededItems(b) # {})
          /\ storage[b].processing_status = FAILED <=>
                (FailedItems(b) # {} /\ SucceededItems(b) = {})

\* a batch with a failed row whose activation reported activated entities
C5_Witness ==
    \E b \in Batches :
        /\ storage[b].processing_status = PARTIALLY_COMPLETED
        /\ storage[b].batch_activated
        /\ FailedItems(b) # {}

\* C6: within one _create_hospitals_parallel call never more than
\* MAX_CONCURRENT_REQUESTS remote create calls are in flight, whatever the number
\* of rows; a row enters only while a slot is free, and every row is admitted
\* in the end
C6_FanOutBounded ==
    /\ [](FanInFlight <= MAX_CONCURRENT_REQUESTS)
    /\ [][fanStarted' > fanStarted => FanInFlight < MAX_CONCURRENT_REQUESTS]_vars
    /\ \A i \in 1 .. MaxFanItems : (i <= fanTotal) ~> (i <= fanStarted)

\* more rows than slots: every slot is taken, rows beyond the cap have already
\* been admitted and another row is still waiting
C6_Witness ==
    /\ FanInFlight = MAX_CONCURRENT_REQUESTS
    /\ fanStarted > MAX_CONCURRENT_REQUESTS
    /\ fanStarted < fanTotal

\* C7: once the creation phase is over (gather() has returned and its results are
\* stored), the stored item sequence has exactly total entries and the record at
\* position i carries row number i and the fields of input row i (name and address
\* stripped), in whatever order the remote creates completed
C7_ItemsInInputOrder ==
    \A b \in Batches :
        Joined(b) =>
          /\ Len(storage[b].hospitals) = storage[b].total_hospitals
          /\ Len(Rows(b)) = storage[b].total_hospitals
          /\ \A i \in 1 .. Len(Rows(b)) :
                /\ storage[b].hospitals[i].row = i
                /\ storage[b].hospitals[i].name = strip(Rows(b)[i].name)
                /\ storage[b].hospitals[i].address = strip(Rows(b)[i].address)
                /\ storage[b].hospitals[i].phone = Rows(b)[i].phone

\* two different rows, both created, the second one first (it holds the smaller
\* remote identity), and the phase is over
C7_Witness ==
    \E b \in Batches :
        /\ Joined(b)
        /\ Len(Rows(b)) = 2
        /\ Rows(b)[1] # Rows(b)[2]
        /\ SucceededItems(b) = {1, 2}
        /\ storage[b].hospitals[2].hospital_id[1] < storage[b].hospitals[1].hospital_id[1]

\* every record made so far for a batch: returned to gather() or stored
RecordsOf(b) ==
    { task[b].results[i] : i \in DOMAIN task[b].results } \cup
    { storage[b].hospitals[i] : i \in DOMAIN storage[b].hospitals }

\* C8: a failed creation (the remote client reports failure, or an exception is
\* raised) never aborts the phase: the step that records it leaves the task
\* gathering and the other rows as they were, every row of the batch ends up with
\* exactly one record in the stored sequence, and a record without a remote
\* identity is FAILED with a non-empty error message
C8_ItemFailureIsLocal ==
    /\ [](\A b \in Batches : \A r \in RecordsOf(b) :
            r.hospital_id = None =>
               /\ r.status = FAILED
               /\ r.error_message # None
               /\ r.error_message[1] # "")
    /\ [][ \A b \in Batches :
              storage'[b].failed_hospitals > storage[b].failed_hospitals /\ ~Joined(b)'
                 => /\ task'[b].pc = "gather"
                    /\ task'[b].started = task[b].started
                    /\ \A i \in DOMAIN task[b].results :
                          i \in DOMAIN task'[b].results /\ task'[b].results[i] = task[b].results[i]
                    /\ \E p \in InFlight(b) :
                          /\ DOMAIN task'[b].results = DOMAIN task[b].results \cup {p}
                          /\ task'[b].results[p].status = FAILED ]_vars
    /\ \A b \in Uuids :
          (b \in Batches) ~>
             (/\ b \in Batches
              /\ Joined(b)
              /\ \A i \in 1 .. Len(Rows(b)) :
                    Cardinality({ j \in DOMAIN storage[b].hospitals :
                                    storage[b].hospitals[j].row = i }) = 1)

\* the first row's creation raised, the second row was created all the same, and
\* both records are stored
C8_Witness ==
    \E b \in Batches :
        /\ Joined(b)
        /\ Len(storage[b].hospitals) = 2
        /\ storage[b].hospitals[1].status = FAILED
        /\ storage[b].hospitals[1].error_message \in { Some(e) : e \in ExceptionTexts }
        /\ storage[b].hospitals[2].hospital_id # None

\* C9: when initiate_csv_upload returns, the new batch is in the store with status
\* PENDING, total = number of rows, zero counts and no items, and no remote create
\* has been issued for it; the batch becomes PROCESSING only in a later step
C9_SubmitReturnsBeforeWork ==
    /\ [](response.kind = "upload" =>
            /\ response.batch_id \in Batches
            /\ storage[response.batch_id] =
                  BatchData(response.batch_id, Len(Rows(response.batch_id)), PENDING)
            /\ response.total_hospitals = Len(Rows(response.batch_id))
            /\ response.status = PENDING
            /\ task[response.batch_id].pc = "scheduled"
            /\ task[response.batch_id].started = 0
            /\ DOMAIN task[response.batch_id].results = {})
    /\ [][ \A b \in DOMAIN storage' :
              (storage'[b].processing_status = PROCESSING /\ b \in Batches =>
                  storage[b].processing_status \in {PENDING, PROCESSING})
              /\ (storage'[b].processing_status = PROCESSING => b \in Batches) ]_vars

\* initiate_csv_upload has just returned for a list of two rows
C9_Witness ==
    /\ response.kind = "upload"
    /\ response.total_hospitals = 2
    /\ storage[response.batch_id].processing_status = PENDING

\* C10: get_batch_status and get_batch_progress for an identity that was never
\* submitted raise NotFound, return no snapshot, start no remote call and leave
\* the store as it was; for a submitted identity they never raise NotFound
C10_NotFoundOnlyForUnknown ==
    /\ [](/\ response.kind = "NotFound" => response.batch_id \notin Batches
          /\ response.kind \in {"progress", "status"} => response.batch_id \in Batches
          /\ \A b \in Uuids : listCalls[b] > 0 => b \in Batches)
    /\ [][ response'.kind = "NotFound" =>
              /\ storage' = storage
              /\ task' = task
              /\ listCalls' = listCalls ]_vars
    /\ [][ \A id \in QueryIds :
              (id \notin Batches /\ (get_batch_progress(id) \/ get_batch_status(id)))
                 => response'.kind = "NotFound" /\ response'.batch_id = id ]_vars

\* while a batch is in the store, a progress query for a foreign identity has
\* just raised NotFound
C10_Witness ==
    /\ response = BatchNotFoundException("progress", "zz")
    /\ Batches # {}

\* C11: the remote list call is started only by a get_batch_status that finds the
\* batch COMPLETED or PARTIALLY_COMPLETED; a get_batch_status on a PENDING,
\* PROCESSING or FAILED batch answers at once, and no get_batch_progress starts a
\* remote call of any kind
C11_ListCallOnlyWhenCompleted ==
    /\ [][ \A b \in Uuids :
              listCalls'[b] > listCalls[b] =>
                 /\ b \in Batches
                 /\ storage[b].processing_status \in {COMPLETED, PARTIALLY_COMPLETED}
                 /\ get_batch_status(b) ]_vars
    /\ [][ \A id \in Batches :
              (get_batch_status(id)
                 /\ storage[id].processing_status \in {PENDING, PROCESSING, FAILED})
                 => /\ listCalls' = listCalls
                    /\ task' = task
                    /\ response'.kind = "status" ]_vars
    /\ [][ \A id \in QueryIds :
              get_batch_progress(id) => listCalls' = listCalls /\ task' = task ]_vars

\* a status query on a PARTIALLY_COMPLETED batch is waiting for the remote list
C11_Witness ==
    \E b \in Batches :
        /\ listCalls[b] = 1
        /\ storage[b].processing_status = PARTIALLY_COMPLETED
        /\ response = NoResponse

\* the status C12 gives a record, for the list the remote answered with
C12_ExpectedStatus(hospital_record, fetched) ==
    LET id == hospital_record.hospital_id
        was == hospital_record.status
    IN  CASE id = None -> was
          [] id # None /\ id[1] \notin DOMAIN fetched -> DELETED
          [] id # None /\ id[1] \in DOMAIN fetched /\ fetched[id[1]] ->
                IF was = DELETED THEN was ELSE CREATED_AND_ACTIVATED
          [] id # None /\ id[1] \in DOMAIN fetched /\ ~fetched[id[1]] ->
                IF was \in {DELETED, FAILED} THEN was ELSE CREATED

\* C12: whatever list the remote answers a suspended status query with, the
\* reconciliation of lines 207-222 leaves every record as it was except for its
\* status; a record with a remote identity becomes DELETED when the identity is not
\* in the list, CREATED_AND_ACTIVATED when it is there and active unless the record
\* is already DELETED, CREATED when it is there and inactive unless the record is
\* already DELETED or FAILED; a record without an identity keeps its status; the
\* query answers with the records it stored
C12_ReconcileMapsByRemoteList ==
    /\ [](\A b \in Batches :
            listCalls[b] > 0 =>
            \A reply \in ListReplies(b) :
               LET fetched == IF reply = None THEN <<>> ELSE reply[1]
                   before == storage[b].hospitals
                   after == Reconcile(before, get_hospitals_by_batch(reply))
               IN  /\ DOMAIN after = DOMAIN before
                   /\ \A i \in DOMAIN before :
                         after[i] = [before[i] EXCEPT
                                        !.status = C12_ExpectedStatus(before[i], fetched)])
    /\ [][ \A b \in Batches :
              listCalls'[b] < listCalls[b] =>
                 /\ response'.kind = "status"
                 /\ response'.hospitals = storage'[b].hospitals
                 /\ \A i \in DOMAIN storage[b].hospitals :
                       storage'[b].hospitals[i] =
                          [storage[b].hospitals[i] EXCEPT
                             !.status = storage'[b].hospitals[i].status] ]_vars

\* a status query has just reconciled an activated batch of two created rows: one
\* entity was gone from the remote list, the other was there and inactive
C12_Witness ==
    /\ response.kind = "status"
    /\ response.batch_activated
    /\ \E i, j \in DOMAIN response.hospitals :
          /\ response.hospitals[i].status = DELETED
          /\ response.hospitals[j].status = CREATED
    /\ storage[response.batch_id].hospitals = response.hospitals

\* C13: every status query answered for a COMPLETED or PARTIALLY_COMPLETED batch,
\* a second or later one too, reports as deleted_hospitals the number of DELETED
\* records in the snapshot it returns
C13_DeletedCountMatchesSnapshot ==
    (response.kind = "status"
       /\ response.processing_status \in {COMPLETED, PARTIALLY_COMPLETED})
       => response.deleted_hospitals = CountStatus(response.hospitals, DELETED)

\* C14: when the remote list call of a status query on a COMPLETED or
\* PARTIALLY_COMPLETED batch fails, the query answers with a snapshot and the batch
\* is as it was before the call: no record changes its status
C14_FailedListCallHasNoEffect ==
    [][ \A b \in Batches :
           get_batch_status_resumes(b, None) =>
              /\ response'.kind = "status"
              /\ \A i \in DOMAIN storage[b].hospitals :
                    storage'[b].hospitals[i].status = storage[b].hospitals[i].status ]_vars

\* C15: activate_batch is in flight only once every row of the batch has been
\* started, has returned and is stored, and at least one row was created; the task
\* enters that call from the join only and never a second time; a batch whose rows
\* all failed goes from the join straight to FAILED with batch_activated false
C15_ActivationOnceAfterAllCreates ==
    /\ [](\A b \in Batches :
            /\ task[b].pc = "activate" =>
                  /\ task[b].started = Len(Rows(b))
                  /\ DOMAIN storage[b].hospitals = 1 .. Len(Rows(b))
                  /\ SucceededItems(b) # {}
                  /\ ~IsTerminal(b)
            /\ (IsTerminal(b) /\ SucceededItems(b) = {}) =>
                  /\ storage[b].processing_status = FAILED
                  /\ ~storage[b].batch_activated)
    /\ [][ \A b \in Batches :
              /\ (task'[b].pc = "activate" /\ task[b].pc # "activate") =>
                    /\ task[b].pc = "gather"
                    /\ DOMAIN task[b].results = 1 .. Len(Rows(b))
              /\ task[b].pc = "activate" => task'[b].pc \in {"activate", "done"}
              /\ task[b].pc = "done" => task'[b].pc = "done"
              /\ (task[b].pc = "gather" /\ task'[b].pc # "gather"
                    /\ CountStatus(task[b].results, CREATED) = 0) =>
                    /\ task'[b].pc = "done"
                    /\ storage'[b].processing_status = FAILED
                    /\ ~storage'[b].batch_activated ]_vars

\* activate_batch is in flight for a batch of two rows, one created and one failed
C15_Witness ==
    \E b \in Batches :
        /\ task[b].pc = "activate"
        /\ Len(Rows(b)) = 2
        /\ FailedItems(b) # {}
        /\ SucceededItems(b) # {}

\* C16: when activate_batch answers with a count of at least one, the step that
\* takes the answer makes the batch terminal with batch_activated true and every
\* created record CREATED_AND_ACTIVATED; batch_activated is never true on a batch
\* that is not terminal, and in the state in which a batch becomes terminal with
\* batch_activated true no record is CREATED
C16_ActivatedBatchShowsUpgrades ==
    /\ [](\A b \in Batches : storage[b].batch_activated => IsTerminal(b))
    /\ [][ \A b \in Batches :
              (task[b].pc = "activate" /\ task'[b].pc = "done") =>
              \A activation_result \in ActivationResults :
                 (/\ activation_result # None
                  /\ activation_result[1] >= 1
                  /\ activate_batch_returns(b, activation_result)) =>
                    /\ IsTerminal(b)'
                    /\ storage'[b].batch_activated
                    /\ \A i \in DOMAIN storage[b].hospitals :
                          storage[b].hospitals[i].hospital_id # None =>
                             storage'[b].hospitals[i].status = CREATED_AND_ACTIVATED ]_vars
    /\ [][ \A b \in Batches :
              (~IsTerminal(b) /\ IsTerminal(b)' /\ storage'[b].batch_activated) =>
                 \A i \in DOMAIN storage'[b].hospitals :
                    storage'[b].hospitals[i].status # CREATED ]_vars

\* the task has just finished a batch of two created rows that the remote
\* activated: both records are CREATED_AND_ACTIVATED and no query has run since
C16_Witness ==
    \E b \in Batches :
        /\ task[b].pc = "done"
        /\ storage[b].batch_activated
        /\ Len(storage[b].hospitals) = 2
        /\ \A i \in DOMAIN storage[b].hospitals :
              storage[b].hospitals[i].status = CREATED_AND_ACTIVATED
        /\ listCalls[b] = 0
        /\ response = NoResponse

\* C17: when activate_batch fails or answers with a count of zero, the step that
\* takes the answer still ends the batch, COMPLETED when no row failed and
\* PARTIALLY_COMPLETED otherwise, with batch_activated false, the success and
\* failure counts as the join stored them and every record as it was, the created
\* ones CREATED
C17_FailedActivationIsNotFatal ==
    [][ \A b \in Batches :
           (task[b].pc = "activate" /\ task'[b].pc = "done") =>
           \A activation_result \in ActivationResults :
              (/\ (activation_result = None \/ activation_result[1] = 0)
               /\ activate_batch_returns(b, activation_result)) =>
                 /\ storage'[b].processing_status =
                       (IF FailedItems(b) = {} THEN COMPLETED ELSE PARTIALLY_COMPLETED)
                 /\ ~storage'[b].batch_activated
                 /\ storage'[b].processed_hospitals = storage[b].processed_hospitals
                 /\ storage'[b].failed_hospitals = storage[b].failed_hospitals
                 /\ storage'[b].hospitals = storage[b].hospitals
                 /\ \A i \in SucceededItems(b) :
                       storage'[b].hospitals[i].status = CREATED ]_vars

\* the task has just finished a batch of two created rows whose activation failed
\* or activated nothing: COMPLETED, not activated, both records CREATED
C17_Witness ==
    \E b \in Batches :
        /\ task[b].pc = "done"
        /\ storage[b].processing_status = COMPLETED
        /\ ~storage[b].batch_activated
        /\ Len(storage[b].hospitals) = 2
        /\ \A i \in DOMAIN storage[b].hospitals : storage[b].hospitals[i].status = CREATED
        /\ listCalls[b] = 0
        /\ response = NoResponse

\* C18: while a batch is PROCESSING and the join has not happened, the stored
\* success count, which is what a progress or status query reports, is the number
\* of rows whose creation has succeeded so far
C18_RunningSuccessCountIsLive ==
    \A b \in Batches :
        (storage[b].processing_status = PROCESSING /\ task[b].pc = "gather") =>
           storage[b].processed_hospitals = CountStatus(task[b].results, CREATED)

\* C19: get_batch_progress answers with the stored success count plus the stored
\* failure count, and no step of the task or of a query makes that sum smaller:
\* not a creation that returns, not the join that overwrites the running counts
\* with the counts of the gathered records
C19_ProcessedNeverDecreases ==
    /\ [][ \A b \in Batches :
              BatchProgressResponse(storage'[b]).processed_hospitals
                 >= BatchProgressResponse(storage[b]).processed_hospitals ]_vars
    /\ [][ \A id \in Batches :
              get_batch_progress(id) =>
                 response'.processed_hospitals = Processed(id) ]_vars

\* a progress query has just answered 2 of 2 for a batch that has passed the join
\* and is still PROCESSING (activate_batch is in flight); before the join the sum
\* was 1 from the first successful creation on
C19_Witness ==
    /\ response.kind = "progress"
    /\ response.processing_status = PROCESSING
    /\ response.processed_hospitals = 2
    /\ response.failed_hospitals = 0
    /\ task[response.batch_id].pc = "activate"

\* C20 as stated: get_batch_progress answers with a percentage between 0 and 100
\* that is exactly 100 * processed / total, and with 0 when total is 0
C20_PercentageExact ==
    response.kind = "progress" =>
       LET total == storage[response.batch_id].total_hospitals
           processed == Processed(response.batch_id)
       IN  /\ 0 <= response.progress_percentage
           /\ response.progress_percentage <= 10000
           /\ total = 0 => response.progress_percentage = 0
           /\ total > 0 => response.progress_percentage * total = 10000 * processed

\* C20: for every stored batch whose counts are within its total,
\* get_batch_progress answers with a percentage between 0 and 100 that is
\* 100 * processed / total rounded to two decimals (the hundredth nearest to it),
\* and with 0 when total is 0
C20_PercentageRounded ==
    response.kind = "progress" =>
       LET total == storage[response.batch_id].total_hospitals
           processed == Processed(response.batch_id)
           off == response.progress_percentage * total - 10000 * processed
       IN  /\ 0 <= response.progress_percentage
           /\ response.progress_percentage <= 10000
           /\ total = 0 => response.progress_percentage = 0
           /\ total > 0 => (2 * off <= total /\ -2 * off <= total)

\* a progress query has just answered 66.67 for a batch with 2 of 3 rows done
C20_Witness ==
    /\ response.kind = "progress"
    /\ response.total_hospitals = 3
    /\ response.processed_hospitals = 2
    /\ response.progress_percentage = 6667

\* C21: a status query on a PROCESSING batch whose rows are still being created
\* answers with one record for each row whose creation has returned so far
C21_ItemsVisibleBeforeJoin ==
    (response.kind = "status"
       /\ response.processing_status = PROCESSING
       /\ task[response.batch_id].pc = "gather")
       => Len(response.hospitals) = Cardinality(DOMAIN task[response.batch_id].results)

\* C22: while a batch is PROCESSING, whatever the order in which its creations
\* return, the stored failure count is the number of rows whose creation has
\* failed so far: of the records returned to gather() before the join, of the
\* stored records after it
C22_FailureCountExact ==
    \A b \in Batches :
        storage[b].processing_status = PROCESSING =>
           storage[b].failed_hospitals =
              (IF task[b].pc = "gather"
               THEN CountStatus(task[b].results, FAILED)
               ELSE CountStatus(storage[b].hospitals, FAILED))

\* both rows of a PROCESSING batch have failed, the second row before the first,
\* and the join has not happened: the stored failure count is 2
C22_Witness ==
    \E b \in Batches :
        /\ storage[b].processing_status = PROCESSING
        /\ task[b].pc = "gather"
        /\ DOMAIN task[b].results = {1, 2}
        /\ storage[b].failed_hospitals = 2
        /\ storage[b].processed_hospitals = 0

\* C23: a record that is DELETED stays DELETED in every later step, whatever the
\* remote list of a later status query holds for its entity: absent, active or
\* inactive
C23_DeletedIsAbsorbing ==
    /\ [][ \A b \in Batches : \A i \in DOMAIN storage[b].hospitals :
              storage[b].hospitals[i].status = DELETED =>
                 storage'[b].hospitals[i].status = DELETED ]_vars
    /\ [](\A b \in Batches :
            listCalls[b] > 0 =>
            \A reply \in ListReplies(b) : \A i \in DOMAIN storage[b].hospitals :
               storage[b].hospitals[i].status = DELETED =>
                  Reconcile(storage[b].hospitals, get_hospitals_by_batch(reply))[i].status
                     = DELETED)

\* a status query has just answered for a batch whose one record an earlier query
\* had marked DELETED: the record is still DELETED and this query deleted nothing
C23_Witness ==
    /\ response.kind = "status"
    /\ response.processing_status = COMPLETED
    /\ response.deleted_hospitals = 0
    /\ Len(response.hospitals) = 1
    /\ response.hospitals[1].status = DELETED

\* C24: every record, returned to gather() or stored, has an error message exactly
\* when it is FAILED and a remote identity exactly when it is not FAILED; and no
\* step, the activation upgrade and every reconciliation included, changes a
\* stored FAILED record
C24_FailedRecordsShape ==
    /\ [](\A b \in Batches : \A hospital_record \in RecordsOf(b) :
            /\ hospital_record.error_message # None <=> hospital_record.status = FAILED
            /\ hospital_record.hospital_id # None <=> hospital_record.status # FAILED)
    /\ [][ \A b \in Batches : \A i \in DOMAIN storage[b].hospitals :
              storage[b].hospitals[i].status = FAILED =>
                 storage'[b].hospitals[i] = storage[b].hospitals[i] ]_vars

\* a status query has just reconciled an activated batch of one created and one
\* failed row: the created row's entity was gone and its record is DELETED, the
\* failed row's record is FAILED as before
C24_Witness ==
    /\ response.kind = "status"
    /\ response.batch_activated
    /\ response.deleted_hospitals = 1
    /\ \E i, j \in DOMAIN response.hospitals :
          /\ response.hospitals[i].status = FAILED
          /\ response.hospitals[i].error_message # None
          /\ response.hospitals[j].status = DELETED

\* C25: get_batch_progress on any batch, and get_batch_status on a PENDING,
\* PROCESSING or FAILED batch, leave the store as it is; while a batch's task has
\* not finished no status query is suspended on the remote list for it, and every
\* step that changes the stored batch is a step of its task
C25_QueriesArePureReads ==
    /\ [][ \A id \in QueryIds : get_batch_progress(id) => storage' = storage ]_vars
    /\ [][ \A id \in Batches :
              (get_batch_status(id)
                 /\ storage[id].processing_status \in {PENDING, PROCESSING, FAILED})
                 => storage' = storage /\ listCalls' = listCalls ]_vars
    /\ [](\A b \in Batches : task[b].pc # "done" => listCalls[b] = 0)
    /\ [][ \A b \in Batches :
              (task[b].pc # "done" /\ storage'[b] # storage[b]) => task'[b] # task[b] ]_vars

\* a status query has just answered for a batch that is still PROCESSING after the
\* join, with its two records stored, while activate_batch is in flight
C25_Witness ==
    /\ response.kind = "status"
    /\ response.processing_status = PROCESSING
    /\ Len(response.hospitals) = 2
    /\ task[response.batch_id].pc = "activate"
    /\ storage[response.batch_id].hospitals = response.hospitals

\* C26: once a batch is terminal no step changes its total, its success count, its
\* failure count, batch_activated or its status, nor the number of its records or
\* anything of a record but the status: a reconciliation that marks records DELETED
\* or turns them back to CREATED leaves the counts as the task wrote them
C26_ReconcileChangesStatusesOnly ==
    [][ \A b \in Batches :
           IsTerminal(b) =>
              /\ storage'[b].total_hospitals = storage[b].total_hospitals
              /\ storage'[b].processed_hospitals = storage[b].processed_hospitals
              /\ storage'[b].failed_hospitals = storage[b].failed_hospitals
              /\ storage'[b].batch_activated = storage[b].batch_activated
              /\ storage'[b].processing_status = storage[b].processing_status
              /\ DOMAIN storage'[b].hospitals = DOMAIN storage[b].hospitals
              /\ \A i \in DOMAIN storage[b].hospitals :
                    [storage'[b].hospitals[i] EXCEPT !.status = CREATED] =
                       [storage[b].hospitals[i] EXCEPT !.status = CREATED] ]_vars

\* a status query has just reconciled a COMPLETED, activated batch of two rows:
\* one record is DELETED, the other back to CREATED, and the success count is
\* still 2
C26_Witness ==
    /\ response.kind = "status"
    /\ response.processing_status = COMPLETED
    /\ response.batch_activated
    /\ response.processed_hospitals = 2
    /\ \E i, j \in DOMAIN response.hospitals :
          /\ response.hospitals[i].status = DELETED
          /\ response.hospitals[j].status = CREATED
    /\ storage[response.batch_id].processed_hospitals = 2

\* C27: status queries that overlap on a COMPLETED or PARTIALLY_COMPLETED batch
\* are reconciled in the order in which their lists were fetched: a list fetched
\* before one that has already been reconciled is never written over it, so it
\* changes no record's status (a failed call has fetched no list)
C27_ReconcileInFetchOrder ==
    [][ \A q \in DOMAIN calls :
           (calls[q].pc = "fetched" /\ calls'[q].pc = "done"
              /\ calls[q].reply # None
              /\ calls[q].fetch < newestApplied)
              => storage' = storage ]_vars

====
